---------------------------- MODULE Spec2Model ----------------------------
(***************************************************************************)
(* A model of cupy/random/_kernels.py: the rk_state record, the xorshift   *)
(* generator (rk_seed, rk_random, rk_double) and the distribution samplers *)
(* built on it, together with the element-wise kernels that seed a private *)
(* state per output element and run one sampler on it.                     *)
(*                                                                         *)
(* Machine integers are kept at their width.  A 32-bit word is a pair and  *)
(* a 64-bit word a 4-tuple of 16-bit limbs, least significant limb first,  *)
(* so that no intermediate value leaves the range of the checker's own     *)
(* integers.                                                               *)
(***************************************************************************)
EXTENDS Integers, Sequences, FiniteSets, TLC

VARIABLES state, pc, arg, loc, ret, hist, out

vars == <<state, pc, arg, loc, ret, hist, out>>

(***************************************************************************)
(* Bounds of the model.                                                    *)
(***************************************************************************)
\* seeds 0 .. MaxSeed are tried, next to the extreme seeds of SpecialSeeds
MaxSeed == 3
\* rk_random steps taken in one run of the generator specification
MaxDraws == 8
\* calls of rk_seed in one run of the generator specification
MaxSeedings == 1

(***************************************************************************)
(* Values.  An operator refers to its arguments as expressions; Bind and   *)
(* Bind2 hand over values, each computed once, as a call in the code does. *)
(***************************************************************************)
\* F(v), the value v being computed once however often F refers to it
Bind(v, F(_)) == CHOOSE r \in {F(x) : x \in {v}} : TRUE
\* F(v, w), the values v and w being computed once
Bind2(v, w, F(_, _)) == CHOOSE r \in {F(x, y) : x \in {v}, y \in {w}} : TRUE

(***************************************************************************)
(* Limb arithmetic.                                                        *)
(***************************************************************************)
\* an unsigned int is two limbs
LimbBits == 32 \div 2
LimbBase == 2^LimbBits

Pow2(k) == 2^k

RECURSIVE XorBits(_, _, _)
\* the exclusive or of two n-bit naturals
XorBits(a, b, n) ==
    IF n = 0 \/ (a = 0 /\ b = 0) THEN 0
    ELSE ((a + b) % 2) + 2 * XorBits(a \div 2, b \div 2, n - 1)

\* x ^ y on words of equal length
XorW(x0, y0) ==
    Bind2(x0, y0, LAMBDA x, y : [i \in DOMAIN x |-> XorBits(x[i], y[i], LimbBits)])

LimbAt(x, j) == IF j \in DOMAIN x THEN x[j] ELSE 0

\* x >> k on an unsigned word: zeros come in from the top
ShrW(x0, k) ==
    Bind2(x0, k \div LimbBits, LAMBDA x, ls :
        [i \in DOMAIN x |->
            (LimbAt(x, i + ls) \div Pow2(k % LimbBits))
            + (LimbAt(x, i + ls + 1) % Pow2(k % LimbBits)) * Pow2(LimbBits - (k % LimbBits))])

\* x << k on an unsigned word, truncated to the word's width
ShlW(x0, k) ==
    Bind2(x0, k \div LimbBits, LAMBDA x, ls :
        [i \in DOMAIN x |->
            ((LimbAt(x, i - ls) * Pow2(k % LimbBits)) % LimbBase)
            + (LimbAt(x, i - ls - 1) \div Pow2(LimbBits - (k % LimbBits)))])

RECURSIVE Carry(_, _, _)
\* limbs that may exceed a limb, brought back to limbs modulo the width
Carry(x, i, c) ==
    IF i > Len(x) THEN << >>
    ELSE Bind(x[i] + c, LAMBDA v :
             <<v % LimbBase>> \o Carry(x, i + 1, v \div LimbBase))

\* x + k modulo the width of x, for a small natural k
AddSmall(x0, k) ==
    Bind(x0, LAMBDA x :
        Bind([i \in DOMAIN x |-> IF i = 1 THEN x[i] + k ELSE x[i]], LAMBDA y :
            Carry(y, 1, 0)))

\* x + y modulo the width of x
AddW(x0, y0) ==
    Bind2(x0, y0, LAMBDA x, y :
        Bind([i \in DOMAIN x |-> x[i] + LimbAt(y, i)], LAMBDA z : Carry(z, 1, 0)))

\* byte j (0 the least significant) of a natural below 2^32
ByteOf(c, j) == (c \div Pow2(8 * j)) % 256

\* 256 * acc + b * x modulo the width of x, for a byte b
MulAcc(acc0, x, b) ==
    Bind(acc0, LAMBDA acc :
        Bind([i \in DOMAIN x |-> 256 * acc[i] + b * x[i]], LAMBDA z : Carry(z, 1, 0)))

\* c * x modulo the width of x, for an unsigned 32-bit constant c
MulConst(c, x0) ==
    Bind(x0, LAMBDA x :
        MulAcc(MulAcc(MulAcc(MulAcc([i \in DOMAIN x |-> 0], x, ByteOf(c, 3)),
                             x, ByteOf(c, 2)), x, ByteOf(c, 1)), x, ByteOf(c, 0)))

\* the unsigned 64-bit word of a small natural, and the truncation to 32 bits
U64(k) == <<k % LimbBase, k \div LimbBase, 0, 0>>
Low32(s) == <<s[1], s[2]>>
ZeroWord == <<0, 0>>

(***************************************************************************)
(* rk_state and the generator.                                             *)
(***************************************************************************)
\* the multiplier of the seeding recurrence
SeedMult == 1812433253

\* a round without + i
SeedStepNoAdd(s, i) == MulConst(SeedMult, XorW(s, ShrW(s, 30)))

\* one round of the loop of rk_seed: s = 1812433253U * (s ^ (s >> 30)) + i
SeedStep(s, i) == AddSmall(MulConst(SeedMult, XorW(s, ShrW(s, 30))), i)

\* the loop of rk_seed with s an unsigned int: each round starts from the
\* 32 bits the round before stored
SeedRoundsNarrow(s) ==
    Bind(SeedStep(s, 1), LAMBDA s1 :
    Bind(SeedStep(<<s1[1], s1[2], 0, 0>>, 2), LAMBDA s2 :
    Bind(SeedStep(<<s2[1], s2[2], 0, 0>>, 3), LAMBDA s3 :
    Bind(SeedStep(<<s3[1], s3[2], 0, 0>>, 4), LAMBDA s4 :
        <<Low32(s1), Low32(s2), Low32(s3), Low32(s4)>>))))

\* the four values s takes in the loop of rk_seed, each truncated to the
\* unsigned int stored in xor128[i - 1]
SeedRounds(s) ==
    Bind(SeedStep(s, 1), LAMBDA s1 :
    Bind(SeedStep(s1, 2), LAMBDA s2 :
    Bind(SeedStep(s2, 3), LAMBDA s3 :
    Bind(SeedStep(s3, 4), LAMBDA s4 :
        <<Low32(s1), Low32(s2), Low32(s3), Low32(s4)>>))))

\* rk_seed built without CUPY_USE_BINOMIAL: has_binomial is left as it is
SeedKeepCache(s, st) ==
    [st EXCEPT !.xor128 = SeedRounds(s),
               !.has_gauss = 0]

rk_seed(s, st) ==
    [st EXCEPT !.xor128 = SeedRounds(s),
               !.has_gauss = 0,
               !.has_binomial = 0]

\* t with the shift to the right
RandomTRight(x0) == XorW(x0, ShrW(x0, 11))

\* t = xor128[0] ^ (xor128[0] << 11)
RandomT(x0) == XorW(x0, ShlW(x0, 11))

\* xor128[3] ^ (xor128[3] >> 19) ^ t ^ (t >> 8)
RandomNew(x3, t0) ==
    Bind(t0, LAMBDA t : XorW(XorW(XorW(x3, ShrW(x3, 19)), t), ShrW(t, 8)))

\* rk_random: the state it leaves and the word it returns
rk_random(st) ==
    Bind(RandomNew(st.xor128[4], RandomT(st.xor128[1])), LAMBDA w :
        [st |-> [st EXCEPT !.xor128 = <<@[2], @[3], @[4], w>>], val |-> w])

\* a 32-bit word shifted right by k >= 5, as a natural below 2^27
ShrToInt(w, k) == w[2] * Pow2(LimbBits - k) + (w[1] \div Pow2(k))

\* rk_double drawing once and using the one word for both halves
DoubleOneDraw(st) ==
    Bind(rk_random(st), LAMBDA d1 :
        [st |-> d1.st, val |-> <<ShrToInt(d1.val, 5), ShrToInt(d1.val, 6)>>])

\* rk_double: the two draws a, b in this order; the value returned is
\* (a * 67108864.0 + b) / 9007199254740992.0, kept as the pair <<a, b>>
rk_double(st) ==
    Bind(rk_random(st), LAMBDA d1 :
        Bind(rk_random(d1.st), LAMBDA d2 :
            [st |-> d2.st, val |-> <<ShrToInt(d1.val, 5), ShrToInt(d2.val, 6)>>]))


(***************************************************************************)
(* Doubles.  A double is modelled as a binary floating-point number with a *)
(* significand of MantBits bits (53 in the build) and round-to-nearest-    *)
(* even: the pair <<m, e>> stands for m * 2^e, with m = 0 (and e = 0) or   *)
(* 2^(MantBits-1) <= |m| < 2^MantBits.  Exponents beyond ExpLimit overflow *)
(* to an infinity and exponents below -ExpLimit flush to zero.  The        *)
(* exponent ExpLimit + 1 is kept for the infinities and the NaN.  Zero     *)
(* carries no sign.  Every operation takes its operands by value (Bind,    *)
(* Bind2), as the machine does.                                            *)
(***************************************************************************)
MantBits == 10
ExpLimit == 64

Zero == <<0, 0>>
PosInf == <<1, ExpLimit + 1>>
NegInf == <<-1, ExpLimit + 1>>
NaN == <<0, ExpLimit + 1>>

IsNaN(x) == x = NaN
IsInf(x) == x = PosInf \/ x = NegInf
IsFin(x) == x[2] <= ExpLimit
IsZero(x) == x = Zero

Abs(n) == IF n < 0 THEN -n ELSE n
Sgn(n) == IF n < 0 THEN -1 ELSE IF n > 0 THEN 1 ELSE 0
InfOf(s) == IF s < 0 THEN NegInf ELSE PosInf

RECURSIVE BitLen(_)
\* the number of binary digits of a natural
BitLen(n) == IF n = 0 THEN 0 ELSE 1 + BitLen(n \div 2)

\* a natural m divided by 2^s, rounded to nearest, ties to even
RoundShift(m, s) ==
    IF s = 0 THEN m
    ELSE IF s > BitLen(m) + 1 THEN 0
    ELSE Bind2(m \div Pow2(s), m % Pow2(s), LAMBDA q, r :
             IF r > Pow2(s - 1) \/ (r = Pow2(s - 1) /\ q % 2 = 1) THEN q + 1 ELSE q)

\* sg * q * 2^e for a significand q that rounding has left in
\* 2^(MantBits-1) .. 2^MantBits
Pack(sg, q, e) ==
    Bind2(IF q = Pow2(MantBits) THEN Pow2(MantBits - 1) ELSE q,
          IF q = Pow2(MantBits) THEN e + 1 ELSE e, LAMBDA qq, ee :
        IF ee > ExpLimit THEN InfOf(sg)
        ELSE IF ee < -ExpLimit THEN Zero
        ELSE <<sg * qq, ee>>)

\* the double nearest to sg * m * 2^e, for a natural m
Make(sg, m, e) ==
    Bind2(m, e, LAMBDA mm, ee :
        IF mm = 0 \/ sg = 0 THEN Zero
        ELSE Bind(BitLen(mm) - MantBits, LAMBDA s :
                 Pack(sg, IF s > 0 THEN RoundShift(mm, s) ELSE mm * Pow2(-s), ee + s)))

\* (double) n for an integer n
D(n) == Make(Sgn(n), Abs(n), 0)

Neg(x0) == Bind(x0, LAMBDA x : IF IsNaN(x) THEN NaN ELSE <<-x[1], x[2]>>)
FAbs(x0) == Bind(x0, LAMBDA x : IF IsNaN(x) THEN NaN ELSE <<Abs(x[1]), x[2]>>)

\* x + y on finite doubles other than zero, x having the larger exponent
AddFin(x, y) ==
    IF x[2] - y[2] > MantBits + 2 THEN x
    ELSE Bind(x[1] * Pow2(x[2] - y[2]) + y[1], LAMBDA sum :
             Make(Sgn(sum), Abs(sum), y[2]))

Add(x0, y0) ==
    Bind2(x0, y0, LAMBDA x, y :
        IF IsNaN(x) \/ IsNaN(y) THEN NaN
        ELSE IF IsInf(x) THEN (IF IsInf(y) /\ x # y THEN NaN ELSE x)
        ELSE IF IsInf(y) THEN y
        ELSE IF IsZero(x) THEN y
        ELSE IF IsZero(y) THEN x
        ELSE IF x[2] >= y[2] THEN AddFin(x, y)
        ELSE AddFin(y, x))

Sub(x, y) == Add(x, Neg(y))

Mul(x0, y0) ==
    Bind2(x0, y0, LAMBDA x, y :
        IF IsNaN(x) \/ IsNaN(y) THEN NaN
        ELSE IF IsInf(x) \/ IsInf(y)
             THEN (IF IsZero(x) \/ IsZero(y) THEN NaN ELSE InfOf(Sgn(x[1]) * Sgn(y[1])))
        ELSE Make(Sgn(x[1]) * Sgn(y[1]), Abs(x[1]) * Abs(y[1]), x[2] + y[2]))

\* the left shift given to a dividend so that the quotient keeps guard bits
GuardShift == 30 - MantBits

\* x / y on finite doubles other than zero
DivFin(x, y) ==
    Bind(Abs(x[1]) * Pow2(GuardShift), LAMBDA num :
        Make(Sgn(x[1]) * Sgn(y[1]),
             2 * (num \div Abs(y[1])) + (IF num % Abs(y[1]) = 0 THEN 0 ELSE 1),
             x[2] - y[2] - GuardShift - 1))

Div(x0, y0) ==
    Bind2(x0, y0, LAMBDA x, y :
        IF IsNaN(x) \/ IsNaN(y) THEN NaN
        ELSE IF IsInf(x) THEN (IF IsInf(y) THEN NaN
                               ELSE InfOf(Sgn(x[1]) * (IF y[1] < 0 THEN -1 ELSE 1)))
        ELSE IF IsInf(y) THEN Zero
        ELSE IF IsZero(y) THEN (IF IsZero(x) THEN NaN ELSE InfOf(Sgn(x[1])))
        ELSE IF IsZero(x) THEN Zero
        ELSE DivFin(x, y))

\* x < y, x <= y and x == y; every comparison with a NaN is false
Lt(x0, y0) ==
    Bind2(x0, y0, LAMBDA x, y :
        IF IsNaN(x) \/ IsNaN(y) THEN FALSE
        ELSE IF x = y THEN FALSE
        ELSE IF Sgn(x[1]) # Sgn(y[1]) THEN Sgn(x[1]) < Sgn(y[1])
        ELSE IF x[1] > 0 THEN (x[2] < y[2] \/ (x[2] = y[2] /\ x[1] < y[1]))
        ELSE (x[2] > y[2] \/ (x[2] = y[2] /\ x[1] < y[1])))
Le(x0, y0) ==
    Bind2(x0, y0, LAMBDA x, y :
        IF IsNaN(x) \/ IsNaN(y) THEN FALSE ELSE (x = y \/ Lt(x, y)))
Gt(x, y) == Lt(y, x)
Ge(x, y) == Le(y, x)
Eq(x0, y0) == Bind2(x0, y0, LAMBDA x, y : IF IsNaN(x) \/ IsNaN(y) THEN FALSE ELSE x = y)

\* floor(x) and ceil(x), as doubles
Floor(x0) ==
    Bind(x0, LAMBDA x :
        IF ~IsFin(x) \/ x[2] >= 0 THEN x
        ELSE IF -x[2] > MantBits THEN (IF x[1] < 0 THEN D(-1) ELSE Zero)
        ELSE D(x[1] \div Pow2(-x[2])))
Ceil(x) == Neg(Floor(Neg(x)))

\* the largest magnitude an integer of the model takes; it stands for every
\* long beyond it
HugeLong == 2^30

\* (long) x: truncation toward zero.  The conversion of an infinity or of a
\* NaN is undefined: ub is the value the build gives it.
ToLong(x0, ub) ==
    Bind(x0, LAMBDA x :
        IF ~IsFin(x) THEN ub
        ELSE IF x[2] >= 0
             THEN (IF x[2] + MantBits > 30 THEN Sgn(x[1]) * HugeLong
                   ELSE x[1] * Pow2(x[2]))
        ELSE IF -x[2] > MantBits THEN 0
        ELSE Sgn(x[1]) * (Abs(x[1]) \div Pow2(-x[2])))

\* x * 2^k, exact
Scale2(x0, k) ==
    Bind(x0, LAMBDA x : IF ~IsFin(x) THEN x ELSE Make(Sgn(x[1]), Abs(x[1]), x[2] + k))

\* the double nearest to the decimal literal n / d
Lit(n, d) == Div(D(n), D(d))

One == D(1)
Two == D(2)
Half == Lit(1, 2)

(***************************************************************************)
(* The functions of the mathematical library, computed in the arithmetic   *)
(* above by argument reduction and a short series.  Their results lie      *)
(* within a few units in the last place of the true value, and the special *)
(* arguments give the results the library gives: log(0) = -inf, x/0 = inf, *)
(* sqrt and log of a negative number a NaN.                                *)
(***************************************************************************)
RECURSIVE IsqrtIn(_, _, _)
\* the largest r in lo .. hi with r * r <= n
IsqrtIn(n, lo, hi) ==
    IF lo >= hi THEN lo
    ELSE Bind((lo + hi + 1) \div 2, LAMBDA mid :
             IF mid * mid <= n THEN IsqrtIn(n, mid, hi) ELSE IsqrtIn(n, lo, mid - 1))

\* the square root of the natural big as a double scaled by 2^e
SqrtOf(big, e) ==
    Bind(IsqrtIn(big, 0, Pow2(15)), LAMBDA root :
        Make(1, 2 * root + (IF root * root = big THEN 0 ELSE 1), e - 1))

Sqrt(x0) ==
    Bind(x0, LAMBDA x :
        IF IsNaN(x) \/ x[1] < 0 THEN NaN
        ELSE IF x = PosInf \/ IsZero(x) THEN x
        ELSE Bind(IF (x[2] - GuardShift) % 2 = 0 THEN GuardShift ELSE GuardShift - 1,
                  LAMBDA j : SqrtOf(x[1] * Pow2(j), (x[2] - j) \div 2)))

Ln2 == Lit(693147, 1000000)
\* log(2) split into a short leading part and the rest
Ln2Hi == Lit(11, 16)
Ln2Lo == Lit(5647, 1000000)
Pi == Lit(355, 113)
HalfPi == Scale2(Pi, -1)
TwoPi == Scale2(Pi, 1)

\* 1 + z2/3 + z2^2/5 + z2^3/7
LogPoly(z2) ==
    Add(One, Mul(z2, Add(Lit(1, 3), Mul(z2, Add(Lit(1, 5), Mul(z2, Lit(1, 7)))))))

\* log(f * 2^ex) for f in [sqrt(1/2), sqrt(2)]
LogOf(f, ex) ==
    Bind(Div(Sub(f, One), Add(f, One)), LAMBDA z :
        Bind(Mul(z, z), LAMBDA z2 :
            Add(Mul(D(ex), Ln2), Mul(Scale2(z, 1), LogPoly(z2)))))

Log(x0) ==
    Bind(x0, LAMBDA x :
        IF IsNaN(x) \/ x[1] < 0 THEN NaN
        ELSE IF x = PosInf THEN PosInf
        ELSE IF IsZero(x) THEN NegInf
        ELSE Bind(IF 2 * x[1] * x[1] > Pow2(2 * MantBits) THEN 1 ELSE 0, LAMBDA h :
                 LogOf(<<x[1], 1 - MantBits - h>>, x[2] + MantBits - 1 + h)))

\* 1 + r + r^2/2 + ... + r^5/120
ExpPoly(r) ==
    Add(One, Mul(r, Add(One, Mul(Div(r, D(2)),
        Add(One, Mul(Div(r, D(3)),
        Add(One, Mul(Div(r, D(4)),
        Add(One, Div(r, D(5)))))))))))

Exp(x0) ==
    Bind(x0, LAMBDA x :
        IF IsNaN(x) THEN NaN
        ELSE IF x = PosInf \/ Lt(D(ExpLimit), x) THEN PosInf
        ELSE IF x = NegInf \/ Lt(x, D(-ExpLimit)) THEN Zero
        ELSE Bind(ToLong(Floor(Add(Div(x, Ln2), Half)), 0), LAMBDA k :
                 Bind(Sub(Sub(x, Mul(D(k), Ln2Hi)), Mul(D(k), Ln2Lo)), LAMBDA r :
                     Scale2(ExpPoly(r), k))))

\* cos(y) for 0 <= y <= pi/2, y2 being y * y
CosSeries(y2) ==
    Sub(One, Mul(Div(y2, D(2)),
        Sub(One, Mul(Div(y2, D(12)),
        Sub(One, Mul(Div(y2, D(30)),
        Sub(One, Div(y2, D(56)))))))))

\* cos(x) for 0 <= x <= pi
Cos(x0) ==
    Bind(x0, LAMBDA x :
        IF ~IsFin(x) THEN NaN
        ELSE IF Gt(x, HalfPi)
             THEN Bind(Sub(Pi, x), LAMBDA y : Neg(Bind(Mul(y, y), CosSeries)))
        ELSE Bind(Mul(x, x), CosSeries))

\* atan(t) for 0 <= t <= 1, by two halvings of the angle and a series
AtanHalve(t0) == Bind(t0, LAMBDA t : Div(t, Add(One, Sqrt(Add(One, Mul(t, t))))))
\* u * (1 - u2/3 + u2^2/5 - u2^3/7)
AtanPoly(u, u2) ==
    Mul(u, Sub(One, Mul(u2, Sub(Lit(1, 3), Mul(u2, Sub(Lit(1, 5), Mul(u2, Lit(1, 7))))))))
AtanUnit(t) ==
    Bind(AtanHalve(AtanHalve(t)), LAMBDA u :
        Bind(Mul(u, u), LAMBDA u2 : Scale2(AtanPoly(u, u2), 2)))

\* atan(t) for t >= 0
Atan(t0) ==
    Bind(t0, LAMBDA t :
        IF t = PosInf THEN HalfPi
        ELSE IF Gt(t, One) THEN Sub(HalfPi, AtanUnit(Div(One, t)))
        ELSE AtanUnit(t))

Acos(w0) ==
    Bind(w0, LAMBDA w :
        IF IsNaN(w) \/ Gt(FAbs(w), One) THEN NaN
        ELSE IF w = D(-1) THEN Pi
        ELSE Scale2(Atan(Sqrt(Div(Sub(One, w), Add(One, w)))), 1))

\* pow(x, y) for x >= 0 and y > 0
Pow(x0, y0) ==
    Bind2(x0, y0, LAMBDA x, y :
        IF IsNaN(x) \/ IsNaN(y) THEN NaN
        ELSE IF IsZero(x) THEN Zero
        ELSE Exp(Mul(y, Log(x))))

\* fmod(x, y) for finite x >= 0 and y > 0, whose exponents differ by less
\* than GuardShift: the remainder is exact
Fmod(x0, y0) ==
    Bind2(x0, y0, LAMBDA x, y :
        IF ~IsFin(x) \/ ~IsFin(y) \/ IsZero(y) THEN NaN
        ELSE IF x[2] < y[2] THEN x
        ELSE Make(1, (x[1] * Pow2(x[2] - y[2])) % y[1], y[2]))

(***************************************************************************)
(* The value of rk_double as a double, and registers chosen by the draws   *)
(* they give.                                                              *)
(***************************************************************************)
\* (a * 67108864.0 + b) / 9007199254740992.0 in the model's doubles: the
\* numerator's leading MantBits bits of its 53, over 2^MantBits
UDbl(u) == Bind(u, LAMBDA ab : Make(1, ab[1] \div Pow2(27 - MantBits), -MantBits))

\* the step t -> t ^ (t >> 8) after x -> x ^ (x << 11) of rk_random undone
UnRandomT(y0) ==
    Bind(y0, LAMBDA y :
        Bind(XorW(XorW(y, ShrW(y, 8)), XorW(ShrW(y, 16), ShrW(y, 24))), LAMBDA t :
            XorW(XorW(t, ShlW(t, 11)), ShlW(t, 22))))

\* the register whose next four rk_random results are o1, o2, o3, o4
RegisterOf(o1, o2, o3, o4) ==
    Bind(UnRandomT(XorW(o4, XorW(o3, ShrW(o3, 19)))), LAMBDA x3 :
        <<UnRandomT(XorW(o1, XorW(x3, ShrW(x3, 19)))),
          UnRandomT(XorW(o2, XorW(o1, ShrW(o1, 19)))),
          UnRandomT(XorW(o3, XorW(o2, ShrW(o2, 19)))),
          x3>>)

\* draws k / 2^GridBits are tried, next to the least and the greatest ones
GridBits == 3

AllOnes == <<LimbBase - 1, LimbBase - 1>>
\* the word whose leading bits are k / 2^g
WordOfFrac(k, g) == <<0, k * Pow2(LimbBits - g)>>
\* first words of the two rk_random results of one rk_double: the grid, the
\* least positive double of the model and the greatest value of rk_double
DrawWords ==
    {WordOfFrac(k, GridBits) : k \in 0..(Pow2(GridBits) - 1)}
    \cup {WordOfFrac(1, MantBits), AllOnes}
\* the second word that goes with a first word
SecondWord(w) == IF w = AllOnes THEN AllOnes ELSE ZeroWord

\* registers whose first two rk_double results are the draws of w1 and w2
DrawRegister(w1, w2) == RegisterOf(w1, SecondWord(w1), w2, SecondWord(w2))

(***************************************************************************)
(* rk_state records.                                                       *)
(***************************************************************************)
\* the register the generator never leaves, and never enters from another
ZeroRegister == <<ZeroWord, ZeroWord, ZeroWord, ZeroWord>>
OnesRegister == <<AllOnes, AllOnes, AllOnes, AllOnes>>

\* a state whose fields other than the register all hold the stale value g
StaleState(reg, g) ==
    [xor128 |-> reg, gauss |-> D(g), has_gauss |-> g,
     has_binomial |-> g, nsave |-> g, m |-> g, psave |-> D(g),
     r |-> D(g), q |-> D(g), fm |-> D(g), p1 |-> D(g), xm |-> D(g),
     xl |-> D(g), xr |-> D(g), c |-> D(g), laml |-> D(g), lamr |-> D(g),
     p2 |-> D(g), p3 |-> D(g), p4 |-> D(g)]

\* the values an uninitialised or reused field may hold
StaleValues == {0, 1, 7}

\* the seed 0xbbfe43d745b4dd04, after which the first rk_double is 0, and the
\* seed 0x9a3d876b7bd5e4c9, after which it is 1 - 2^-53, the greatest
ZeroDrawSeed == <<56580, 17844, 17367, 48126>>
MaxDrawSeed == <<58569, 31701, 34667, 39485>>

SpecialSeeds == {<<LimbBase - 1, LimbBase - 1, 0, 0>>,
                 <<0, 0, 1, 0>>,
                 <<LimbBase - 1, LimbBase - 1, LimbBase - 1, LimbBase - 1>>}
Seeds == {U64(k) : k \in 0..MaxSeed} \cup SpecialSeeds

(***************************************************************************)
(* rk_gauss.                                                               *)
(***************************************************************************)
\* iterations of one rejection loop carried out by a single step of a model
MaxSpin == 6

\* 2.0*rk_double(state) - 1.0 for a result u of rk_double
GaussCoord(u) == Sub(Mul(Two, UDbl(u)), One)

\* one pass of the do-while loop of rk_gauss
GaussPass(st) ==
    Bind(rk_double(st), LAMBDA d1 :
    Bind(rk_double(d1.st), LAMBDA d2 :
    Bind2(GaussCoord(d1.val), GaussCoord(d2.val), LAMBDA x1, x2 :
    Bind(Add(Mul(x1, x1), Mul(x2, x2)), LAMBDA r2 :
        [st |-> d2.st, x1 |-> x1, x2 |-> x2, r2 |-> r2,
         again |-> Ge(r2, One) \/ Eq(r2, Zero)]))))

RECURSIVE GaussLoop(_, _)
\* the loop, given up after fuel further passes
GaussLoop(st, fuel) ==
    Bind(GaussPass(st), LAMBDA g :
        IF g.again /\ fuel > 0 THEN GaussLoop(g.st, fuel - 1) ELSE g)

\* f = sqrt(-2.0*log(r2)/r2)
GaussF(r2) == Sqrt(Div(Mul(D(-2), Log(r2)), r2))

\* rk_gauss returning the kept deviate without clearing has_gauss and gauss
GaussKeepFlag(st) ==
    IF st.has_gauss # 0
    THEN [st |-> st, val |-> st.gauss, spin |-> FALSE]
    ELSE Bind(GaussLoop(st, MaxSpin), LAMBDA g :
         Bind(GaussF(g.r2), LAMBDA f :
             [st |-> [g.st EXCEPT !.gauss = Mul(f, g.x1), !.has_gauss = 1],
              val |-> Mul(f, g.x2), spin |-> g.again]))

\* rk_gauss: the state it leaves, the value it returns, and whether the
\* loop was still rejecting when it was given up
rk_gauss(st) ==
    IF st.has_gauss # 0
    THEN [st |-> [st EXCEPT !.gauss = Zero, !.has_gauss = 0],
          val |-> st.gauss, spin |-> FALSE]
    ELSE Bind(GaussLoop(st, MaxSpin), LAMBDA g :
         Bind(GaussF(g.r2), LAMBDA f :
             [st |-> [g.st EXCEPT !.gauss = Mul(f, g.x1), !.has_gauss = 1],
              val |-> Mul(f, g.x2), spin |-> g.again]))

(***************************************************************************)
(* The generator on one rk_state: rk_seed, rk_random, rk_double and        *)
(* rk_gauss called in any order.  pc names the last call, ret its result,  *)
(* and hist keeps what the properties speak of: the state before the call, *)
(* the number of rk_random steps since the start, the number of pairs of   *)
(* deviates rk_gauss has made, the pair whose first deviate is kept in     *)
(* gauss, and the deviates returned so far, each as <<pair, which>>.       *)
(***************************************************************************)
\* the words by which the generator specification chooses registers
EngineWords == {ZeroWord, WordOfFrac(1, 1), AllOnes}
\* registers of the generator's cycle, chosen by the draws that follow
CycleRegisters ==
    {DrawRegister(w1, w2) : w1 \in EngineWords, w2 \in EngineWords} \ {ZeroRegister}

NoHist == [prev |-> << >>, draws |-> 0, seedings |-> 0, made |-> 0, spare |-> 0,
           rets |-> << >>]

\* rk_state internal_state; as declared, or as a seeded state met later on
\* the generator's cycle
Init ==
    /\ \/ /\ pc = "uninit"
          /\ state \in {StaleState(r, g) : r \in {ZeroRegister, OnesRegister},
                                           g \in StaleValues}
       \/ /\ pc = "seeded"
          /\ state \in {StaleState(r, 0) : r \in CycleRegisters}
    /\ arg = << >>
    /\ loc = << >>
    /\ ret = << >>
    /\ hist = NoHist
    /\ out = << >>

\* rk_seed on the state as it is: fresh, or left by earlier calls
Seed(s) ==
    /\ hist.seedings < MaxSeedings
    /\ state' = rk_seed(s, state)
    /\ pc' = "seeded"
    /\ arg' = s
    /\ ret' = << >>
    /\ hist' = [hist EXCEPT !.prev = state, !.seedings = @ + 1, !.spare = 0]
    /\ UNCHANGED <<loc, out>>

Random ==
    /\ pc # "uninit"
    /\ hist.draws + 1 <= MaxDraws
    /\ \E d \in {rk_random(state)} :
           /\ state' = d.st
           /\ ret' = d.val
    /\ pc' = "random"
    /\ hist' = [hist EXCEPT !.prev = state, !.draws = @ + 1]
    /\ UNCHANGED <<arg, loc, out>>

Double ==
    /\ pc # "uninit"
    /\ hist.draws + 2 <= MaxDraws
    /\ \E d \in {rk_double(state)} :
           /\ state' = d.st
           /\ ret' = d.val
    /\ pc' = "double"
    /\ hist' = [hist EXCEPT !.prev = state, !.draws = @ + 2]
    /\ UNCHANGED <<arg, loc, out>>

\* rk_gauss returning the deviate it kept
GaussKept ==
    /\ pc # "uninit"
    /\ state.has_gauss # 0
    /\ \E d \in {rk_gauss(state)} :
           /\ state' = d.st
           /\ ret' = d.val
    /\ pc' = "gauss_kept"
    /\ hist' = [hist EXCEPT !.prev = state, !.spare = 0,
                            !.rets = Append(@, <<hist.spare, 1>>)]
    /\ UNCHANGED <<arg, loc, out>>

\* rk_gauss making a new pair
GaussNew ==
    /\ pc # "uninit"
    /\ state.has_gauss = 0
    /\ hist.draws + 4 <= MaxDraws
    /\ \E d \in {rk_gauss(state)} :
           /\ ~d.spin
           /\ state' = d.st
           /\ ret' = d.val
    /\ pc' = "gauss_new"
    /\ hist' = [hist EXCEPT !.prev = state, !.draws = @ + 4,
                            !.made = @ + 1, !.spare = hist.made + 1,
                            !.rets = Append(@, <<hist.made + 1, 2>>)]
    /\ UNCHANGED <<arg, loc, out>>

Next ==
    \/ \E s \in Seeds : Seed(s)
    \/ Random
    \/ Double
    \/ GaussKept
    \/ GaussNew

Spec == Init /\ [][Next]_vars

(***************************************************************************)
(* The register alone: rk_seed and rk_random, and rk_random on a register  *)
(* no rk_seed has written, which may hold anything, four zero words        *)
(* included.                                                               *)
(***************************************************************************)
\* the seed 0xc854bfe74895800e, after which the first register word is 0
ZeroWordSeed == <<32782, 18581, 49127, 51284>>
RegisterSeeds == Seeds \cup {ZeroWordSeed}

\* rk_random on storage as declared
RandomUnseeded ==
    /\ pc \in {"uninit", "unseeded"}
    /\ hist.draws + 1 <= MaxDraws
    /\ \E d \in {rk_random(state)} :
           /\ state' = d.st
           /\ ret' = d.val
    /\ pc' = "unseeded"
    /\ hist' = [hist EXCEPT !.prev = state, !.draws = @ + 1]
    /\ UNCHANGED <<arg, loc, out>>

NextRegister ==
    \/ \E s \in RegisterSeeds : Seed(s)
    \/ Random
    \/ RandomUnseeded

SpecRegister == Init /\ [][NextRegister]_vars

(***************************************************************************)
(* States a sampler is called on: states rk_seed leaves, and states whose  *)
(* register lies further on the generator's cycle, chosen by the draws     *)
(* that follow.                                                            *)
(***************************************************************************)
DrawSeeds == {U64(k) : k \in 0..MaxSeed} \cup {ZeroDrawSeed, MaxDrawSeed}
SeededStates == {rk_seed(s, StaleState(ZeroRegister, 0)) : s \in DrawSeeds}
\* states chosen by the first rk_double alone
OneDrawStates == {StaleState(DrawRegister(w, AllOnes), 0) : w \in DrawWords}
\* states chosen by the first two results of rk_double
TwoDrawStates ==
    {StaleState(r, 0) : r \in {DrawRegister(w1, w2) : w1 \in DrawWords, w2 \in DrawWords}
                                  \ {ZeroRegister}}
\* hist at the call of a sampler: seedings tells a state rk_seed has just left
\* from one further on the cycle
SeededHist == [NoHist EXCEPT !.seedings = 1]

\* the values the conversion of an infinity or a NaN to long is given
LongUB == {-HugeLong, 0, HugeLong}

(***************************************************************************)
(* rk_geometric.                                                           *)
(***************************************************************************)
\* the width given to the long X of rk_geometric_search, which wraps
CountBits == 6

\* X++ on a long of CountBits bits
NextCount(X) == IF X + 1 = Pow2(CountBits - 1) THEN -Pow2(CountBits - 1) ELSE X + 1

\* 0.333333333333333333333333
Third == Lit(1, 3)

\* the body of the loop of rk_geometric_search
SearchBody(l) ==
    Bind(Mul(l.prod, l.q), LAMBDA prod :
        [l EXCEPT !.prod = prod, !.sum = Add(l.sum, prod),
                  !.X = NextCount(l.X)])

\* (long)ceil(log(1.0-rk_double(state))/log(1.0-p)) for the draw u
GeometricInversionOf(u, p, ub) ==
    ToLong(Ceil(Div(Log(Sub(One, u)), Log(Sub(One, p)))), ub)

\* the values of p tried
GeometricPs == {Lit(1, 1024), Lit(1, 10), Lit(1, 4), Lit(21, 64), Third, Lit(47, 128), Half,
                Lit(7, 10), Lit(9, 10), One}

InitGeometric ==
    /\ pc = "call"
    /\ \/ state \in SeededStates /\ hist = SeededHist
       \/ state \in OneDrawStates /\ hist = NoHist
    /\ arg \in {[p |-> p] : p \in GeometricPs}
    /\ loc = << >>
    /\ ret = 0
    /\ out = << >>

\* rk_geometric taking the search branch, up to the loop
GeometricSearch ==
    /\ pc = "call"
    /\ Ge(arg.p, Third)
    /\ \E d \in {rk_double(state)} :
           /\ state' = d.st
           /\ loc' = [X |-> 1, sum |-> arg.p, prod |-> arg.p, q |-> Sub(One, arg.p),
                      U |-> UDbl(d.val)]
    /\ pc' = "search"
    /\ UNCHANGED <<arg, ret, hist, out>>

\* one iteration of while (U > sum)
GeometricSearchStep ==
    /\ pc = "search"
    /\ Gt(loc.U, loc.sum)
    /\ loc' = SearchBody(loc)
    /\ UNCHANGED <<state, pc, arg, ret, hist, out>>

GeometricSearchReturn ==
    /\ pc = "search"
    /\ ~Gt(loc.U, loc.sum)
    /\ ret' = loc.X
    /\ pc' = "done"
    /\ UNCHANGED <<state, arg, loc, hist, out>>

\* rk_geometric taking the inversion branch
GeometricInversion ==
    /\ pc = "call"
    /\ ~Ge(arg.p, Third)
    /\ \E d \in {rk_double(state)} : \E ub \in LongUB :
           /\ state' = d.st
           /\ loc' = [U |-> UDbl(d.val)]
           /\ ret' = GeometricInversionOf(UDbl(d.val), arg.p, ub)
    /\ pc' = "done"
    /\ UNCHANGED <<arg, hist, out>>

NextGeometric ==
    \/ GeometricSearch
    \/ GeometricSearchStep
    \/ GeometricSearchReturn
    \/ GeometricInversion

SpecGeometric == InitGeometric /\ [][NextGeometric]_vars

\* the same with every call of rk_geometric running on: its thread is never
\* stopped for good
SpecGeometricFair == SpecGeometric /\ WF_vars(NextGeometric)

(***************************************************************************)
(* rk_logseries.                                                           *)
(***************************************************************************)
\* rk_double calls one call of rk_logseries is followed through
MaxLogseriesDraws == 6

\* result = (long)floor(1 + log(V)/log(q))
LogseriesResult(V, q, ub) == ToLong(Floor(Add(One, Div(Log(V), Log(q)))), ub)

\* the pass of while (1) that has drawn V < p and then U: the locals it
\* leaves, how it ends and what it returns
LogseriesTail(st, l, V, U, ub) ==
    Bind(Sub(One, Exp(Mul(l.r, U))), LAMBDA q :
        IF Le(V, Mul(q, q))
        THEN Bind(LogseriesResult(V, q, ub), LAMBDA result :
                 [st |-> st, l |-> [l EXCEPT !.V = V, !.U = U, !.q = q, !.result = result],
                  how |-> IF result < 1 THEN "retry" ELSE "invert", ret |-> result])
        ELSE [st |-> st, l |-> [l EXCEPT !.V = V, !.U = U, !.q = q],
              how |-> IF Ge(V, q) THEN "one" ELSE "two",
              ret |-> IF Ge(V, q) THEN 1 ELSE 2])

\* the same with the test of result < 1 left out
LogseriesNoRetry(st, p, l, ub) ==
    Bind(rk_double(st), LAMBDA d1 :
        IF Ge(UDbl(d1.val), p)
        THEN [st |-> d1.st, l |-> [l EXCEPT !.V = UDbl(d1.val)], how |-> "direct", ret |-> 1]
        ELSE Bind(rk_double(d1.st), LAMBDA d2 :
                 Bind(LogseriesTail(d2.st, l, UDbl(d1.val), UDbl(d2.val), ub), LAMBDA t :
                     [t EXCEPT !.how = IF @ = "retry" THEN "invert" ELSE @])))

\* one pass of while (1) of rk_logseries
LogseriesPass(st, p, l, ub) ==
    Bind(rk_double(st), LAMBDA d1 :
        IF Ge(UDbl(d1.val), p)
        THEN [st |-> d1.st, l |-> [l EXCEPT !.V = UDbl(d1.val)], how |-> "direct", ret |-> 1]
        ELSE Bind(rk_double(d1.st), LAMBDA d2 :
                 LogseriesTail(d2.st, l, UDbl(d1.val), UDbl(d2.val), ub)))

\* the values of p tried
LogseriesPs == {Lit(1, 10), Half, Lit(9, 10), Lit(1023, 1024)}

InitLogseries ==
    /\ pc = "call"
    /\ \/ state \in SeededStates /\ hist = SeededHist
       \/ state \in TwoDrawStates /\ hist = NoHist
    /\ arg \in {[p |-> p] : p \in LogseriesPs}
    /\ loc = << >>
    /\ ret = 0
    /\ out = << >>

\* r = log(1.0 - p); the other locals hold what the stack held
LogseriesCall ==
    /\ pc = "call"
    /\ loc' = [r |-> Log(Sub(One, arg.p)), V |-> NaN, U |-> NaN, q |-> NaN, result |-> 0]
    /\ pc' = "loop"
    /\ UNCHANGED <<state, arg, ret, hist, out>>

\* a pass that ends the way how, returning
LogseriesReturn(how) ==
    /\ pc = "loop"
    /\ \E ub \in LongUB : \E t \in {LogseriesPass(state, arg.p, loc, ub)} :
           /\ t.how = how
           /\ state' = t.st
           /\ loc' = t.l
           /\ ret' = t.ret
    /\ pc' = "done"
    /\ hist' = [hist EXCEPT !.prev = state, !.rets = Append(@, how)]
    /\ UNCHANGED <<arg, out>>

\* if (V >= p) return 1
LogseriesDirect == LogseriesReturn("direct")
\* if (V <= q*q) and result >= 1: return result
LogseriesInvert == LogseriesReturn("invert")
\* if (V >= q) return 1
LogseriesOne == LogseriesReturn("one")
\* return 2
LogseriesTwo == LogseriesReturn("two")

\* if (V <= q*q) and result < 1: continue
LogseriesRetry ==
    /\ pc = "loop"
    /\ hist.draws + 2 <= MaxLogseriesDraws
    /\ \E ub \in LongUB : \E t \in {LogseriesPass(state, arg.p, loc, ub)} :
           /\ t.how = "retry"
           /\ state' = t.st
           /\ loc' = t.l
    /\ hist' = [hist EXCEPT !.prev = state, !.draws = @ + 2, !.rets = Append(@, "retry")]
    /\ UNCHANGED <<pc, arg, ret, out>>

NextLogseries ==
    \/ LogseriesCall
    \/ LogseriesDirect
    \/ LogseriesInvert
    \/ LogseriesOne
    \/ LogseriesTwo
    \/ LogseriesRetry

SpecLogseries == InitLogseries /\ [][NextLogseries]_vars

(***************************************************************************)
(* rk_poisson.                                                             *)
(***************************************************************************)
\* rk_double calls one call of rk_poisson is followed through
MaxPoissonDraws == 8

\* double a[10] of loggam
LoggamA ==
    <<Lit(8333333, 100000000), Lit(-2777778, 1000000000), Lit(793651, 1000000000),
      Lit(-595238, 1000000000), Lit(841751, 1000000000), Lit(-1917527, 1000000000),
      Lit(6410256, 1000000000), Lit(-29550654, 1000000000), Lit(179644372, 1000000000),
      Lit(-139243222, 100000000)>>

RECURSIVE LoggamSeries(_, _, _)
\* for (k=8; k>=0; k--) { gl0 *= x2; gl0 += a[k]; } from k on; a[k] is LoggamA[k + 1]
LoggamSeries(gl0, x2, k) ==
    IF k < 0 THEN gl0
    ELSE Bind(Add(Mul(gl0, x2), LoggamA[k + 1]), LAMBDA g : LoggamSeries(g, x2, k - 1))

RECURSIVE LoggamShift(_, _, _, _)
\* for (k=1; k<=n; k++) { gl -= log(x0-1.0); x0 -= 1.0; } from k on
LoggamShift(gl, x0, k, n) ==
    IF k > n THEN gl
    ELSE Bind2(Sub(gl, Log(Sub(x0, One))), Sub(x0, One), LAMBDA g, x :
             LoggamShift(g, x, k + 1, n))

\* loggam(x); ub is what (long)(7 - x) gives when 7 - x is no finite number
loggam(x0, ub) ==
    Bind(x0, LAMBDA x :
        IF Eq(x, One) \/ Eq(x, Two) THEN Zero
        ELSE Bind(IF Le(x, D(7)) THEN ToLong(Sub(D(7), x), ub) ELSE 0, LAMBDA n :
            Bind(IF Le(x, D(7)) THEN Add(x, D(n)) ELSE x, LAMBDA xs :
                Bind(LoggamSeries(LoggamA[10], Div(One, Mul(xs, xs)), 8), LAMBDA gl0 :
                    Bind(Sub(Add(Add(Div(gl0, xs), Mul(Half, Log(TwoPi))),
                                 Mul(Sub(xs, Half), Log(xs))), xs), LAMBDA gl :
                        IF Le(x, D(7)) THEN LoggamShift(gl, xs, 1, n) ELSE gl)))))

\* the branch taken were lam == 0 not tested
PoissonMethodNoZero(lam) == IF Ge(lam, D(10)) THEN "ptrs" ELSE "mult"

\* the branch rk_poisson takes
PoissonMethod(lam) ==
    IF Ge(lam, D(10)) THEN "ptrs"
    ELSE IF Eq(lam, Zero) THEN "zero"
    ELSE "mult"

\* one pass of while (1) of rk_poisson_mult
MultPass(st, l) ==
    Bind(rk_double(st), LAMBDA d :
        Bind(Mul(l.prod, UDbl(d.val)), LAMBDA prod :
            [st |-> d.st, l |-> [l EXCEPT !.U = UDbl(d.val), !.prod = prod],
             how |-> IF Gt(prod, l.enlam) THEN "more" ELSE "stop"]))

\* the locals rk_poisson_ptrs sets before its loop
PtrsLocals(lam) ==
    Bind(Add(Lit(931, 1000), Mul(Lit(253, 100), Sqrt(lam))), LAMBDA b :
        [slam |-> Sqrt(lam), loglam |-> Log(lam), b |-> b,
         a |-> Add(Lit(-59, 1000), Mul(Lit(2483, 100000), b)),
         invalpha |-> Add(Lit(11239, 10000), Div(Lit(11328, 10000), Sub(b, Lit(34, 10)))),
         vr |-> Sub(Lit(9277, 10000), Div(Lit(36224, 10000), Sub(b, Two))),
         U |-> NaN, V |-> NaN, us |-> NaN, k |-> 0])

\* k = (long)floor((2*a/us + b)*U + lam + 0.43)
PtrsK(l, lam, U, us, ub) ==
    ToLong(Floor(Add(Add(Mul(Add(Div(Mul(Two, l.a), us), l.b), U), lam), Lit(43, 100))), ub)

\* (log(V) + log(invalpha) - log(a/(us*us)+b)) <= (-lam + k*loglam - loggam(k+1))
PtrsAccept(l, lam, V, us, k, ub) ==
    Le(Sub(Add(Log(V), Log(l.invalpha)), Log(Add(Div(l.a, Mul(us, us)), l.b))),
       Sub(Add(Neg(lam), Mul(D(k), l.loglam)), loggam(D(k + 1), ub)))

\* how a pass of while (1) of rk_poisson_ptrs ends once U, V, us and k are
\* known, the fast acceptance asking for us >= bound
PtrsOutcome(l, lam, V, us, k, ub, bound) ==
    IF Ge(us, bound) /\ Le(V, l.vr) THEN "fast"
    ELSE IF k < 0 \/ (Lt(us, Lit(13, 1000)) /\ Gt(V, us)) THEN "skip"
    ELSE IF PtrsAccept(l, lam, V, us, k, ub) THEN "slow"
    ELSE "reject"

\* a pass of while (1) of rk_poisson_ptrs, the fast acceptance asking for
\* us >= bound
PtrsPassWith(st, lam, l, ub, bound) ==
    Bind(rk_double(st), LAMBDA d1 :
        Bind(rk_double(d1.st), LAMBDA d2 :
            Bind2(Sub(UDbl(d1.val), Half), UDbl(d2.val), LAMBDA U, V :
                Bind(Sub(Half, FAbs(U)), LAMBDA us :
                    Bind(PtrsK(l, lam, U, us, ub), LAMBDA k :
                        [st |-> d2.st,
                         l |-> [l EXCEPT !.U = U, !.V = V, !.us = us, !.k = k],
                         how |-> PtrsOutcome(l, lam, V, us, k, ub, bound),
                         ret |-> k])))))

\* the same with fast acceptance whatever us is
PtrsPassAnyUs(st, lam, l, ub) == PtrsPassWith(st, lam, l, ub, NegInf)

\* one pass of while (1) of rk_poisson_ptrs
PtrsPass(st, lam, l, ub) == PtrsPassWith(st, lam, l, ub, Lit(7, 100))

\* the values of lam tried
PoissonLams == {Zero, Lit(1, 2), D(3), Lit(999, 100), D(10), D(12), D(50), D(1000)}

\* seeds of the states rk_poisson is called on: with seed 55 and lam = 10 the
\* first pass of rk_poisson_ptrs has k < 0 and the second returns
PoissonSeeds == DrawSeeds \cup {U64(55)}

InitPoisson ==
    /\ pc = "call"
    /\ \/ /\ state \in {rk_seed(s, StaleState(ZeroRegister, 0)) : s \in PoissonSeeds}
          /\ hist = SeededHist
       \/ state \in TwoDrawStates /\ hist = NoHist
    /\ arg \in {[lam |-> lam] : lam \in PoissonLams}
    /\ loc = << >>
    /\ ret = 0
    /\ out = << >>

\* lam == 0: return 0
PoissonZero ==
    /\ pc = "call"
    /\ PoissonMethod(arg.lam) = "zero"
    /\ ret' = 0
    /\ pc' = "done"
    /\ hist' = [hist EXCEPT !.prev = state, !.rets = Append(@, "zero")]
    /\ UNCHANGED <<state, arg, loc, out>>

\* rk_poisson calling rk_poisson_mult, up to the loop
PoissonMult ==
    /\ pc = "call"
    /\ PoissonMethod(arg.lam) = "mult"
    /\ loc' = [enlam |-> Exp(Neg(arg.lam)), X |-> 0, prod |-> One, U |-> NaN]
    /\ pc' = "mult"
    /\ hist' = [hist EXCEPT !.prev = state, !.rets = Append(@, "mult")]
    /\ UNCHANGED <<state, arg, ret, out>>

\* prod > enlam: X += 1
MultMore ==
    /\ pc = "mult"
    /\ hist.draws + 1 <= MaxPoissonDraws
    /\ \E t \in {MultPass(state, loc)} :
           /\ t.how = "more"
           /\ state' = t.st
           /\ loc' = [t.l EXCEPT !.X = @ + 1]
    /\ hist' = [hist EXCEPT !.draws = @ + 1, !.rets = Append(@, "more")]
    /\ UNCHANGED <<pc, arg, ret, out>>

\* else return X
MultReturn ==
    /\ pc = "mult"
    /\ \E t \in {MultPass(state, loc)} :
           /\ t.how = "stop"
           /\ state' = t.st
           /\ loc' = t.l
           /\ ret' = t.l.X
    /\ pc' = "done"
    /\ hist' = [hist EXCEPT !.draws = @ + 1, !.rets = Append(@, "stop")]
    /\ UNCHANGED <<arg, out>>

\* rk_poisson calling rk_poisson_ptrs, up to the loop
PoissonPtrs ==
    /\ pc = "call"
    /\ PoissonMethod(arg.lam) = "ptrs"
    /\ loc' = PtrsLocals(arg.lam)
    /\ pc' = "ptrs"
    /\ hist' = [hist EXCEPT !.prev = state, !.rets = Append(@, "ptrs")]
    /\ UNCHANGED <<state, arg, ret, out>>

\* a pass that returns k, the way how
PtrsReturn(how) ==
    /\ pc = "ptrs"
    /\ \E ub \in LongUB : \E t \in {PtrsPass(state, arg.lam, loc, ub)} :
           /\ t.how = how
           /\ state' = t.st
           /\ loc' = t.l
           /\ ret' = t.ret
    /\ pc' = "done"
    /\ hist' = [hist EXCEPT !.draws = @ + 2, !.rets = Append(@, how)]
    /\ UNCHANGED <<arg, out>>

\* a pass that goes round the loop again, the way how
PtrsAgain(how) ==
    /\ pc = "ptrs"
    /\ hist.draws + 2 <= MaxPoissonDraws
    /\ \E ub \in LongUB : \E t \in {PtrsPass(state, arg.lam, loc, ub)} :
           /\ t.how = how
           /\ state' = t.st
           /\ loc' = t.l
    /\ hist' = [hist EXCEPT !.draws = @ + 2, !.rets = Append(@, how)]
    /\ UNCHANGED <<pc, arg, ret, out>>

\* if ((us >= 0.07) && (V <= vr)) return k
PtrsFast == PtrsReturn("fast")
\* if ((k < 0) || ((us < 0.013) && (V > us))) continue
PtrsSkip == PtrsAgain("skip")
\* the last test holding: return k
PtrsSlow == PtrsReturn("slow")
\* the last test failing: the loop goes round
PtrsReject == PtrsAgain("reject")

NextPoisson ==
    \/ PoissonZero
    \/ PoissonMult
    \/ MultMore
    \/ MultReturn
    \/ PoissonPtrs
    \/ PtrsFast
    \/ PtrsSkip
    \/ PtrsSlow
    \/ PtrsReject

SpecPoisson == InitPoisson /\ [][NextPoisson]_vars

(***************************************************************************)
(* rk_vonmises.                                                            *)
(***************************************************************************)
\* passes of while (1) one call of rk_vonmises is followed through
MaxVonmisesPasses == 2

\* s, for kappa >= 1e-8
VonmisesS(kappa) ==
    IF Lt(kappa, Lit(1, 100000)) THEN Add(Div(One, kappa), kappa)
    ELSE Bind(Add(One, Sqrt(Add(One, Mul(Mul(D(4), kappa), kappa)))), LAMBDA r :
             Bind(Div(Sub(r, Sqrt(Mul(Two, r))), Mul(Two, kappa)), LAMBDA rho :
                 Div(Add(One, Mul(rho, rho)), Mul(Two, rho))))

\* (Y*(2-Y) - V >= 0) || (log(Y/V)+1 - Y >= 0)
VonmisesBreak(Y, V) ==
    \/ Ge(Sub(Mul(Y, Sub(Two, Y)), V), Zero)
    \/ Ge(Sub(Add(Log(Div(Y, V)), One), Y), Zero)

\* one pass of while (1) of rk_vonmises
VonmisesPass(st, kappa, l) ==
    Bind(rk_double(st), LAMBDA d1 :
        Bind(Cos(Mul(Pi, UDbl(d1.val))), LAMBDA Z :
            Bind(Div(Add(One, Mul(l.s, Z)), Add(l.s, Z)), LAMBDA W :
                Bind(Mul(kappa, Sub(l.s, W)), LAMBDA Y :
                    Bind(rk_double(d1.st), LAMBDA d2 :
                        [st |-> d2.st,
                         l |-> [l EXCEPT !.U = UDbl(d1.val), !.Z = Z, !.W = W, !.Y = Y,
                                         !.V = UDbl(d2.val)],
                         break |-> VonmisesBreak(Y, UDbl(d2.val))])))))

\* neg = (result < 0); mod = fabs(result); mod = (fmod(mod+M_PI, 2*M_PI)-M_PI);
\* if (neg) mod *= -1;
VonmisesWrapOf(result) ==
    Bind(Sub(Fmod(Add(FAbs(result), Pi), TwoPi), Pi), LAMBDA mod :
        IF Lt(result, Zero) THEN Mul(mod, D(-1)) ELSE mod)

\* the values of mu and kappa tried
VonmisesMus == {Zero, D(1), D(-3), D(10)}
VonmisesKappas == {Zero, Lit(1, 1000000), Half, One, D(4)}

\* the seed 0xb44218e3f910b4e8, after which the first rk_double is above
\* 1 - 2^-28, the second is small and the third is below 0.5
EdgeAngleSeed == <<46312, 63760, 6371, 46146>>
VonmisesSeeds == DrawSeeds \cup {EdgeAngleSeed}

InitVonmises ==
    /\ pc = "call"
    /\ \/ /\ state \in {rk_seed(s, StaleState(ZeroRegister, 0)) : s \in VonmisesSeeds}
          /\ hist = SeededHist
       \/ state \in TwoDrawStates /\ hist = NoHist
    /\ arg \in {[mu |-> mu, kappa |-> kappa] : mu \in VonmisesMus, kappa \in VonmisesKappas}
    /\ loc = << >>
    /\ ret = Zero
    /\ out = << >>

\* kappa < 1e-8: return M_PI * (2*rk_double(state)-1)
VonmisesUniform ==
    /\ pc = "call"
    /\ Lt(arg.kappa, Lit(1, 100000000))
    /\ \E d \in {rk_double(state)} :
           /\ state' = d.st
           /\ ret' = Mul(Pi, Sub(Mul(Two, UDbl(d.val)), One))
    /\ pc' = "done"
    /\ hist' = [hist EXCEPT !.prev = state, !.draws = @ + 1, !.rets = Append(@, "uniform")]
    /\ UNCHANGED <<arg, loc, out>>

\* kappa >= 1e-8, up to the loop; the other locals hold what the stack held
VonmisesCall ==
    /\ pc = "call"
    /\ ~Lt(arg.kappa, Lit(1, 100000000))
    /\ loc' = [s |-> VonmisesS(arg.kappa), U |-> NaN, V |-> NaN, W |-> NaN, Y |-> NaN,
               Z |-> NaN, result |-> NaN]
    /\ pc' = "loop"
    /\ hist' = [hist EXCEPT !.prev = state]
    /\ UNCHANGED <<state, arg, ret, out>>

\* a pass after which the loop goes round
VonmisesReject ==
    /\ pc = "loop"
    /\ Len(hist.rets) + 1 < MaxVonmisesPasses
    /\ \E t \in {VonmisesPass(state, arg.kappa, loc)} :
           /\ ~t.break
           /\ state' = t.st
           /\ loc' = t.l
    /\ hist' = [hist EXCEPT !.draws = @ + 2, !.rets = Append(@, "reject")]
    /\ UNCHANGED <<pc, arg, ret, out>>

\* a pass that ends in break
VonmisesBreakOut ==
    /\ pc = "loop"
    /\ \E t \in {VonmisesPass(state, arg.kappa, loc)} :
           /\ t.break
           /\ state' = t.st
           /\ loc' = t.l
    /\ pc' = "wrap"
    /\ hist' = [hist EXCEPT !.draws = @ + 2, !.rets = Append(@, "break")]
    /\ UNCHANGED <<arg, ret, out>>

\* from U = rk_double(state) after the loop to return mod
VonmisesWrap ==
    /\ pc = "wrap"
    /\ \E d \in {rk_double(state)} :
       \E result \in {Add(IF Lt(UDbl(d.val), Half) THEN Neg(Acos(loc.W)) ELSE Acos(loc.W),
                          arg.mu)} :
           /\ state' = d.st
           /\ loc' = [loc EXCEPT !.U = UDbl(d.val), !.result = result]
           /\ ret' = VonmisesWrapOf(result)
    /\ pc' = "done"
    /\ hist' = [hist EXCEPT !.draws = @ + 1, !.rets = Append(@, "wrap")]
    /\ UNCHANGED <<arg, out>>

NextVonmises ==
    \/ VonmisesUniform
    \/ VonmisesCall
    \/ VonmisesReject
    \/ VonmisesBreakOut
    \/ VonmisesWrap

SpecVonmises == InitVonmises /\ [][NextVonmises]_vars

(***************************************************************************)
(* rk_binomial.                                                            *)
(***************************************************************************)
\* rk_double calls one call of rk_binomial is followed through
MaxBinomialDraws == 4

\* what an int assigned (long)x holds when x is an infinity or a NaN, the
\* conversion being undefined: the low 32 bits of LONG_MAX where it
\* saturates, those of LONG_MIN or of 0 elsewhere
IntUB == {-1, 0}

\* min(a, b) on doubles
MinOf(a, b) == IF Lt(b, a) THEN b ELSE a

\* the fields rk_binomial_inversion initializes
InversionSetup(st, n, p) ==
    Bind(Sub(One, p), LAMBDA q :
        Bind(Mul(D(n), p), LAMBDA np :
            [st EXCEPT !.nsave = n, !.psave = p, !.has_binomial = 1,
                       !.q = q, !.r = Exp(Mul(D(n), Log(q))), !.c = np,
                       !.m = ToLong(MinOf(D(n), Add(np, Mul(D(10), Sqrt(Add(Mul(np, q), One))))),
                                    0)]))

\* the test without the comparison of psave
CachedByN(st, n, p) == st.has_binomial # 0 /\ st.nsave = n

\* state->has_binomial && state->nsave == n && state->psave == p
BinomialCached(st, n, p) == st.has_binomial # 0 /\ st.nsave = n /\ Eq(st.psave, p)

\* px = ((n-X+1) * p * px)/(X*q)
InversionPx(n, p, q, X, px) == Div(Mul(Mul(D(n - X + 1), p), px), Mul(D(X), q))

\* a*(1.0 + a/2.0)
BtpeLam(a) == Mul(a, Add(One, Div(a, Two)))

\* the fields rk_binomial_btpe initializes
BtpeSetup(st, n, p) ==
    Bind(MinOf(p, Sub(One, p)), LAMBDA r :
    Bind(Sub(One, r), LAMBDA q :
    Bind(Add(Mul(D(n), r), r), LAMBDA fm :
    Bind(ToLong(Floor(fm), 0), LAMBDA m :
    Bind(Add(Floor(Sub(Mul(Lit(2195, 1000), Sqrt(Mul(Mul(D(n), r), q))),
                       Mul(Lit(46, 10), q))), Half), LAMBDA p1 :
    Bind(Add(D(m), Half), LAMBDA xm :
    Bind2(Sub(xm, p1), Add(xm, p1), LAMBDA xl, xr :
    Bind(Add(Lit(134, 1000), Div(Lit(205, 10), Add(Lit(153, 10), D(m)))), LAMBDA c :
    Bind2(BtpeLam(Div(Sub(fm, xl), Sub(fm, Mul(xl, r)))),
          BtpeLam(Div(Sub(xr, fm), Mul(xr, q))), LAMBDA laml, lamr :
    Bind(Mul(p1, Add(One, Mul(Two, c))), LAMBDA p2 :
    Bind(Add(p2, Div(c, laml)), LAMBDA p3 :
        [st EXCEPT !.nsave = n, !.psave = p, !.has_binomial = 1,
                   !.r = r, !.q = q, !.fm = fm, !.m = m, !.p1 = p1, !.xm = xm,
                   !.xl = xl, !.xr = xr, !.c = c, !.laml = laml, !.lamr = lamr,
                   !.p2 = p2, !.p3 = p3, !.p4 = Add(p3, Div(c, lamr))])))))))))))

RECURSIVE BtpeFLoop(_, _, _, _, _, _)
\* for (i=lo; i<=hi; i++) F *= (a/i - s), or F /= (a/i - s) when up is
\* FALSE: the passes in the order of the loop, halved to keep the evaluation
\* shallow
BtpeFLoop(F, a, s, lo, hi, up) ==
    IF lo > hi THEN F
    ELSE IF lo = hi
         THEN (IF up THEN Mul(F, Sub(Div(a, D(lo)), s)) ELSE Div(F, Sub(Div(a, D(lo)), s)))
    ELSE Bind((lo + hi) \div 2, LAMBDA mid :
             Bind(BtpeFLoop(F, a, s, lo, mid, up), LAMBDA G :
                 BtpeFLoop(G, a, s, mid + 1, hi, up)))

\* F of Step50
BtpeF(st, n, y) ==
    Bind(Div(st.r, st.q), LAMBDA s :
        Bind(Mul(s, D(n + 1)), LAMBDA a :
            IF st.m < y THEN BtpeFLoop(One, a, s, st.m + 1, y, TRUE)
            ELSE IF st.m > y THEN BtpeFLoop(One, a, s, y + 1, st.m, FALSE)
            ELSE One))

\* (13680.-(462.-(132.-(99.-140./f2)/f2)/f2)/f2)/f1/166320.
BtpeStirling(f1) ==
    Bind(Mul(f1, f1), LAMBDA f2 :
        Div(Div(Sub(D(13680), Div(Sub(D(462), Div(Sub(D(132),
            Div(Sub(D(99), Div(D(140), f2)), f2)), f2)), f2)), f1), D(166320)))

\* the bound A is compared with at the end of Step52
BtpeBound(st, n, y) ==
    Bind2(D(y + 1), D(st.m + 1), LAMBDA x1, f1 :
        Bind2(D(n + 1 - st.m), D(n - y + 1), LAMBDA z, w :
            Add(Add(Add(Add(Add(Add(
                Mul(st.xm, Log(Div(f1, x1))),
                Mul(Add(D(n - st.m), Half), Log(Div(z, w)))),
                Mul(D(y - st.m), Log(Div(Mul(w, st.r), Mul(x1, st.q))))),
                BtpeStirling(f1)),
                BtpeStirling(z)),
                BtpeStirling(x1)),
                BtpeStirling(w))))

\* rho and t of Step52
BtpeRho(k, nrq) ==
    Mul(Div(D(k), nrq),
        Add(Div(Add(Mul(D(k), Add(Div(D(k), D(3)), Lit(625, 1000))),
                    Lit(16666667, 100000000)), nrq), Half))
BtpeT(k, nrq) == Div(D(-k * k), Mul(Two, nrq))

\* the values of n and p tried; arg.ub is the value of IntUB the build gives
BinomialNs == {0, 1, 10, 100, 400}
BinomialPs == {Zero, Lit(1, 10), Half, Lit(9, 10), One}

\* the seed 0xf6d3edc7b616348c, after which the first rk_double is 0.9875...
\* and the second is 0.0
ZeroVSeed == <<13452, 46614, 60871, 63187>>
BinomialSeeds == DrawSeeds \cup {ZeroVSeed}

InitBinomial ==
    /\ pc = "call"
    /\ \/ /\ state \in {rk_seed(s, StaleState(ZeroRegister, 0)) : s \in BinomialSeeds}
          /\ hist = SeededHist
       \/ state \in TwoDrawStates /\ hist = NoHist
    /\ arg \in {[n |-> n, p |-> p, ub |-> ub] :
                    n \in BinomialNs, p \in BinomialPs, ub \in IntUB}
    /\ loc = << >>
    /\ ret = 0
    /\ out = << >>

\* the probability rk_binomial hands on, and whether it returns n minus the
\* result
\* rk_binomial handing p on whatever it is
HandedSame(p) == p

HandedP(p) == IF Le(p, Half) THEN p ELSE Sub(One, p)
BinomialFlip == ~Le(arg.p, Half)
BinomialP == HandedP(arg.p)

\* rk_binomial calling rk_binomial_inversion, up to the loop
BinomialInversion ==
    /\ pc = "call"
    /\ Le(Mul(BinomialP, D(arg.n)), D(30))
    /\ \E st \in {IF BinomialCached(state, arg.n, BinomialP) THEN state
                  ELSE InversionSetup(state, arg.n, BinomialP)} :
       \E d \in {rk_double(st)} :
           /\ state' = d.st
           /\ loc' = [p |-> BinomialP, X |-> 0, px |-> st.r, U |-> UDbl(d.val)]
    /\ pc' = "inversion"
    /\ hist' = [hist EXCEPT !.prev = state, !.draws = @ + 1, !.rets = Append(@, "inversion")]
    /\ UNCHANGED <<arg, ret, out>>

\* a pass of while (U > px) with X <= bound after X++
InversionStep ==
    /\ pc = "inversion"
    /\ Gt(loc.U, loc.px)
    /\ loc.X + 1 <= state.m
    /\ loc' = [loc EXCEPT !.X = @ + 1, !.U = Sub(@, loc.px),
                          !.px = InversionPx(arg.n, loc.p, state.q, loc.X + 1, loc.px)]
    /\ UNCHANGED <<state, pc, arg, ret, hist, out>>

\* a pass of while (U > px) with X > bound after X++
InversionReset ==
    /\ pc = "inversion"
    /\ Gt(loc.U, loc.px)
    /\ loc.X + 1 > state.m
    /\ hist.draws + 1 <= MaxBinomialDraws
    /\ \E d \in {rk_double(state)} :
           /\ state' = d.st
           /\ loc' = [loc EXCEPT !.X = 0, !.px = state.r, !.U = UDbl(d.val)]
    /\ hist' = [hist EXCEPT !.draws = @ + 1, !.rets = Append(@, "reset")]
    /\ UNCHANGED <<pc, arg, ret, out>>

\* return X, and rk_binomial returning it or n minus it
InversionReturn ==
    /\ pc = "inversion"
    /\ ~Gt(loc.U, loc.px)
    /\ ret' = IF BinomialFlip THEN arg.n - loc.X ELSE loc.X
    /\ pc' = "done"
    /\ UNCHANGED <<state, arg, loc, hist, out>>

\* rk_binomial calling rk_binomial_btpe, up to Step10
BinomialBtpe ==
    /\ pc = "call"
    /\ ~Le(Mul(BinomialP, D(arg.n)), D(30))
    /\ state' = IF BinomialCached(state, arg.n, BinomialP) THEN state
                ELSE BtpeSetup(state, arg.n, BinomialP)
    /\ loc' = [p |-> BinomialP, nrq |-> NaN, u |-> NaN, v |-> NaN, x |-> NaN, y |-> 0, k |-> 0]
    /\ pc' = "Step10"
    /\ hist' = [hist EXCEPT !.prev = state, !.rets = Append(@, "btpe")]
    /\ UNCHANGED <<arg, ret, out>>

Step10 ==
    /\ pc = "Step10"
    /\ hist.draws + 2 <= MaxBinomialDraws
    /\ \E d1 \in {rk_double(state)} : \E d2 \in {rk_double(d1.st)} :
       \E u \in {Mul(UDbl(d1.val), state.p4)} : \E v \in {UDbl(d2.val)} :
           /\ state' = d2.st
           /\ IF Gt(u, state.p1)
              THEN /\ loc' = [loc EXCEPT !.nrq = Mul(Mul(D(arg.n), state.r), state.q),
                                         !.u = u, !.v = v]
                   /\ pc' = "Step20"
              ELSE /\ loc' = [loc EXCEPT !.nrq = Mul(Mul(D(arg.n), state.r), state.q),
                                         !.u = u, !.v = v,
                                         !.y = ToLong(Floor(Add(Sub(state.xm, Mul(state.p1, v)),
                                                                u)), arg.ub)]
                   /\ pc' = "Step60"
    /\ hist' = [hist EXCEPT !.draws = @ + 2, !.rets = Append(@, "Step10")]
    /\ UNCHANGED <<arg, ret, out>>

Step20 ==
    /\ pc = "Step20"
    /\ IF Gt(loc.u, state.p2)
       THEN /\ pc' = "Step30"
            /\ loc' = loc
       ELSE \E x \in {Add(state.xl, Div(Sub(loc.u, state.p1), state.c))} :
            \E v \in {Sub(Add(Mul(loc.v, state.c), One),
                          Div(FAbs(Add(Sub(D(state.m), x), Half)), state.p1))} :
                IF Gt(v, One)
                THEN /\ pc' = "Step10"
                     /\ loc' = [loc EXCEPT !.x = x, !.v = v]
                ELSE /\ pc' = "Step50"
                     /\ loc' = [loc EXCEPT !.x = x, !.v = v, !.y = ToLong(Floor(x), arg.ub)]
    /\ UNCHANGED <<state, arg, ret, hist, out>>

Step30 ==
    /\ pc = "Step30"
    /\ IF Gt(loc.u, state.p3)
       THEN /\ pc' = "Step40"
            /\ loc' = loc
       ELSE \E y \in {ToLong(Floor(Add(state.xl, Div(Log(loc.v), state.laml))), arg.ub)} :
                IF y < 0
                THEN /\ pc' = "Step10"
                     /\ loc' = [loc EXCEPT !.y = y]
                ELSE /\ pc' = "Step50"
                     /\ loc' = [loc EXCEPT !.y = y,
                                   !.v = Mul(Mul(loc.v, Sub(loc.u, state.p2)), state.laml)]
    /\ UNCHANGED <<state, arg, ret, hist, out>>

Step40 ==
    /\ pc = "Step40"
    /\ \E y \in {ToLong(Floor(Sub(state.xr, Div(Log(loc.v), state.lamr))), arg.ub)} :
           IF y > arg.n
           THEN /\ pc' = "Step10"
                /\ loc' = [loc EXCEPT !.y = y]
           ELSE /\ pc' = "Step50"
                /\ loc' = [loc EXCEPT !.y = y,
                              !.v = Mul(Mul(loc.v, Sub(loc.u, state.p3)), state.lamr)]
    /\ UNCHANGED <<state, arg, ret, hist, out>>

Step50 ==
    /\ pc = "Step50"
    /\ \E k \in {Abs(loc.y - state.m)} :
           /\ loc' = [loc EXCEPT !.k = k]
           /\ IF k > 20 /\ Lt(D(k), Sub(Div(loc.nrq, Two), One))
              THEN pc' = "Step52"
              ELSE IF Gt(loc.v, BtpeF(state, arg.n, loc.y))
                   THEN pc' = "Step10"
                   ELSE pc' = "Step60"
    /\ UNCHANGED <<state, arg, ret, hist, out>>

Step52 ==
    /\ pc = "Step52"
    /\ \E rho \in {BtpeRho(loc.k, loc.nrq)} : \E t \in {BtpeT(loc.k, loc.nrq)} :
       \E A \in {Log(loc.v)} :
           IF Lt(A, Sub(t, rho)) THEN pc' = "Step60"
           ELSE IF Gt(A, Add(t, rho)) THEN pc' = "Step10"
           ELSE IF Gt(A, BtpeBound(state, arg.n, loc.y)) THEN pc' = "Step10"
           ELSE pc' = "Step60"
    /\ UNCHANGED <<state, arg, loc, ret, hist, out>>

\* Step60 and the return of rk_binomial
Step60 ==
    /\ pc = "Step60"
    /\ \E y \in {IF Gt(loc.p, Half) THEN arg.n - loc.y ELSE loc.y} :
           ret' = IF BinomialFlip THEN arg.n - y ELSE y
    /\ pc' = "done"
    /\ UNCHANGED <<state, arg, loc, hist, out>>

NextBinomial ==
    \/ BinomialInversion
    \/ InversionStep
    \/ InversionReset
    \/ InversionReturn
    \/ BinomialBtpe
    \/ Step10
    \/ Step20
    \/ Step30
    \/ Step40
    \/ Step50
    \/ Step52
    \/ Step60

SpecBinomial == InitBinomial /\ [][NextBinomial]_vars

(***************************************************************************)
(* binomial_kernel: for each element i, rk_seed(seed + i, &internal_state)  *)
(* and y = rk_binomial(&internal_state, n, p).  rk_state internal_state is  *)
(* declared once per thread, before its loop over the elements it is        *)
(* given, and is not initialised.  The kernel is run twice on the same      *)
(* arrays; in each run the elements are taken in any order, and for each    *)
(* element the storage is the one the element before left (the same thread  *)
(* going on) or another thread's.  out holds the arrays: seed, n and p, and *)
(* for each run y, the elements written, the order they were taken in and,  *)
(* for each element, where its storage came from.                           *)
(***************************************************************************)
\* the arrays tried: seed, and the elements of n and p
KernelInputs ==
    {[seed |-> U64(33), n |-> <<100, 400>>, p |-> <<Half, Half>>],
     [seed |-> U64(32), n |-> <<10, 400>>, p |-> <<Lit(9, 10), Half>>],
     [seed |-> MaxDrawSeed, n |-> <<10, 100>>, p |-> <<Half, Lit(9, 10)>>]}

\* the elements
KernelElements == DOMAIN out.n

\* what storage not yet initialised may hold: anything, and so also what
\* looks like the fields rk_binomial keeps for n and p
KernelStorage(from, n, p) ==
    IF from = "fresh" THEN StaleState(OnesRegister, 7)
    ELSE IF from = "cache"
         THEN [StaleState(ZeroRegister, 1) EXCEPT !.nsave = n, !.psave = HandedP(p)]
    ELSE state

\* the run going on: the second once the first has written every element
KernelRun == IF \A i \in KernelElements : out.written[1][i] THEN 2 ELSE 1

InitKernel ==
    /\ pc = "idle"
    /\ state \in {StaleState(ZeroRegister, 0), StaleState(OnesRegister, 1)}
    /\ arg \in {[n |-> 0, p |-> Zero, ub |-> ub, i |-> 0, run |-> 1] : ub \in IntUB}
    /\ loc = << >>
    /\ ret = 0
    /\ hist = SeededHist
    /\ out \in {[seed |-> a.seed, n |-> a.n, p |-> a.p,
                 y |-> [r \in 1..2 |-> [i \in DOMAIN a.n |-> 0]],
                 written |-> [r \in 1..2 |-> [i \in DOMAIN a.n |-> FALSE]],
                 order |-> [r \in 1..2 |-> << >>],
                 from |-> [r \in 1..2 |-> [i \in DOMAIN a.n |-> "none"]]] :
                    a \in KernelInputs}

\* rk_seed(seed + i, &internal_state) for an element i not yet written in
\* the run, and the call of rk_binomial
KernelElement(i, from) ==
    /\ pc = "idle"
    /\ i + 1 \in KernelElements
    /\ ~out.written[KernelRun][i + 1]
    /\ state' = rk_seed(AddSmall(out.seed, i), KernelStorage(from, out.n[i + 1], out.p[i + 1]))
    /\ arg' = [arg EXCEPT !.n = out.n[i + 1], !.p = out.p[i + 1], !.i = i, !.run = KernelRun]
    /\ out' = [out EXCEPT !.from[KernelRun][i + 1] = from,
                          !.order[KernelRun] = Append(@, i)]
    /\ pc' = "call"
    /\ loc' = << >>
    /\ ret' = 0
    /\ hist' = SeededHist

\* y = the value rk_binomial has returned
KernelStore ==
    /\ pc = "done"
    /\ out' = [out EXCEPT !.y[arg.run][arg.i + 1] = ret,
                          !.written[arg.run][arg.i + 1] = TRUE]
    /\ pc' = "idle"
    /\ UNCHANGED <<state, arg, loc, ret, hist>>

NextKernel ==
    \/ \E i \in 0..1 : \E from \in {"kept", "fresh", "cache"} :
           KernelElement(i, from)
    \/ KernelStore
    \/ NextBinomial

SpecKernel == InitKernel /\ [][NextKernel]_vars

(***************************************************************************)
(* rk_binomial called again and again on one seeded state: the fields kept  *)
(* between the calls.  out holds, for each call, the function                *)
(* rk_binomial called and whether it took the else branch of its first if,   *)
(* and the function that last initialised the fields.                        *)
(***************************************************************************)
\* the number of calls on one state
MaxCalls == 3

\* the values of n and p tried
CacheParams == {[n |-> 100, p |-> Half], [n |-> 400, p |-> Half], [n |-> 10, p |-> Half],
                [n |-> 100, p |-> Lit(1, 10)], [n |-> 100, p |-> Lit(9, 10)]}
CacheSeeds == {U64(33), MaxDrawSeed}

\* the function rk_binomial calls for n and the probability it hands on
BinomialPath(n, p) == IF Le(Mul(p, D(n)), D(30)) THEN "inversion" ELSE "btpe"

\* the fields each function keeps and reads
InversionFields == {"q", "r", "c", "m"}
BtpeFields == {"r", "q", "fm", "m", "p1", "xm", "xl", "xr", "c", "laml", "lamr",
               "p2", "p3", "p4"}

InitCache ==
    /\ pc = "idle"
    /\ state \in {rk_seed(s, StaleState(OnesRegister, 7)) : s \in CacheSeeds}
    /\ arg \in {[n |-> 0, p |-> Zero, ub |-> ub] : ub \in IntUB}
    /\ loc = << >>
    /\ ret = 0
    /\ hist = SeededHist
    /\ out = [paths |-> << >>, hits |-> << >>, wrote |-> "none"]

\* rk_binomial(&state, n, p), up to the call of the function it chooses
CacheCall(n, p) ==
    /\ pc \in {"idle", "done"}
    /\ Len(out.paths) < MaxCalls
    /\ arg' = [arg EXCEPT !.n = n, !.p = p]
    /\ \E path \in {BinomialPath(n, HandedP(p))} :
       \E hit \in {BinomialCached(state, n, HandedP(p))} :
           out' = [paths |-> Append(out.paths, path),
                   hits |-> Append(out.hits, hit),
                   wrote |-> IF hit THEN out.wrote ELSE path]
    /\ pc' = "call"
    /\ loc' = << >>
    /\ ret' = 0
    /\ hist' = NoHist
    /\ UNCHANGED state

NextCache ==
    \/ \E a \in CacheParams : CacheCall(a.n, a.p)
    \/ NextBinomial

SpecCache == InitCache /\ [][NextCache]_vars

(***************************************************************************)
(* Properties of the generator.                                            *)
(***************************************************************************)
Range(f) == {f[i] : i \in DOMAIN f}

\* C2: whatever the register holds, rk_double steps the register by exactly
\* two rk_random draws, returns the first shifted right by 5 as a and the
\* second shifted right by 6 as b, with a < 2^27 and b < 2^26, and the
\* double (a * 2^26 + b) / 2^53 lies in [0, 1).
Claim_C2 ==
    pc = "double" =>
        \E d1 \in {rk_random(hist.prev)} : \E d2 \in {rk_random(d1.st)} :
            /\ state = d2.st
            /\ ret = <<ShrToInt(d1.val, 5), ShrToInt(d2.val, 6)>>
            /\ ret[1] \in 0..(Pow2(27) - 1)
            /\ ret[2] \in 0..(Pow2(26) - 1)
            /\ Ge(UDbl(ret), Zero)
            /\ Lt(UDbl(ret), One)

\* rk_double has returned the greatest value it can: a = 2^27 - 1 and
\* b = 2^26 - 1
Witness_C2 ==
    /\ pc = "double"
    /\ ret = <<Pow2(27) - 1, Pow2(26) - 1>>
    /\ hist.prev.xor128 # state.xor128

\* C10: a call of rk_gauss with has_gauss set returns the stored gauss,
\* clears has_gauss and gauss and leaves the register alone; a call with
\* has_gauss clear ends with has_gauss set, gauss = f*x1 of the accepted
\* pair and returns f*x2; a set has_gauss means gauss holds the first
\* deviate of a pair that has not been returned; no deviate is returned
\* twice.
Claim_C10 ==
    /\ pc = "gauss_kept" =>
          /\ hist.prev.has_gauss # 0
          /\ ret = hist.prev.gauss
          /\ state.has_gauss = 0
          /\ state.gauss = Zero
          /\ state.xor128 = hist.prev.xor128
    /\ pc = "gauss_new" =>
          \E g \in {GaussLoop(hist.prev, MaxSpin)} : \E f \in {GaussF(g.r2)} :
              /\ hist.prev.has_gauss = 0
              /\ Lt(g.r2, One) /\ ~Eq(g.r2, Zero)
              /\ state.has_gauss # 0
              /\ state.gauss = Mul(f, g.x1)
              /\ ret = Mul(f, g.x2)
              /\ state.xor128 = g.st.xor128
    /\ (pc # "uninit" /\ state.has_gauss # 0) =>
          /\ hist.spare # 0
          /\ <<hist.spare, 2>> \in Range(hist.rets)
          /\ <<hist.spare, 1>> \notin Range(hist.rets)
    /\ \A i, j \in DOMAIN hist.rets : hist.rets[i] = hist.rets[j] => i = j

\* the kept deviate of a second pair has been returned, after both deviates
\* of the first
Witness_C10 ==
    /\ pc = "gauss_kept"
    /\ hist.made = 2
    /\ Len(hist.rets) = 4
    /\ ret # Zero

(***************************************************************************)
(* Properties of rk_geometric.                                             *)
(***************************************************************************)
\* C4: for every p in (0, 1] and every draw rk_double can give, 0 among
\* them, rk_geometric returns an integer >= 1, on the search branch and on
\* the inversion branch alike.
Claim_C4 == pc = "done" => ret >= 1

\* C9: every call made on a state rk_seed has left comes to its end: no loop
\* of the sampler repeats for ever.
Claim_C9 == (hist.seedings = 1) => <>(pc = "done")

(***************************************************************************)
(* Properties of rk_logseries.                                             *)
(***************************************************************************)
\* C8: every value rk_logseries returns is an integer >= 1: it is 1 when
\* V >= p; else the inversion result when V <= q*q, and then that result is
\* >= 1; else 1 when V >= q; else 2.  A pass is repeated only when V < p,
\* V <= q*q and the inversion result is < 1.
Claim_C8 ==
    /\ pc = "done" =>
          /\ ret \in Int /\ ret >= 1
          /\ IF Ge(loc.V, arg.p) THEN ret = 1
             ELSE IF Le(loc.V, Mul(loc.q, loc.q)) THEN ret = loc.result /\ loc.result >= 1
             ELSE IF Ge(loc.V, loc.q) THEN ret = 1
             ELSE ret = 2
    /\ (pc = "loop" /\ hist.rets # << >>) =>
          /\ Lt(loc.V, arg.p)
          /\ Le(loc.V, Mul(loc.q, loc.q))
          /\ loc.result < 1

\* a pass was repeated because the inversion gave no count, and the next
\* pass returned
Witness_C8 ==
    /\ pc = "done"
    /\ Len(hist.rets) = 2
    /\ hist.rets[1] = "retry"

(***************************************************************************)
(* Properties of rk_poisson.                                               *)
(***************************************************************************)
\* how the last pass made ended
LastPass == hist.rets[Len(hist.rets)]

\* C6: every value rk_poisson returns is an integer >= 0, whatever the draws.
\* In rk_poisson_ptrs the fast acceptance, taken with us >= 0.07 and V <= vr
\* before k < 0 is tested, returns a k that is not negative.
Claim_C6 ==
    pc = "done" =>
        /\ ret \in Int /\ ret >= 0
        /\ LastPass = "fast" =>
              /\ Ge(arg.lam, D(10))
              /\ Ge(loc.us, Lit(7, 100)) /\ Le(loc.V, loc.vr)
              /\ ret = loc.k /\ loc.k >= 0

\* after a pass that went round the loop a pass returned by the fast
\* acceptance, on a state rk_seed has left
Witness_C6 ==
    /\ pc = "done"
    /\ hist.seedings = 1
    /\ hist.rets = <<"ptrs", "skip", "fast">>

\* C7: lam alone selects the method.  lam == 0 returns 0 with no draw made
\* and the state as it was; 0 < lam < 10 runs rk_poisson_mult and nothing
\* else; lam >= 10 runs rk_poisson_ptrs and nothing else.
Claim_C7 ==
    pc # "call" =>
        IF Eq(arg.lam, Zero)
        THEN /\ hist.rets = <<"zero">>
             /\ pc = "done" /\ ret = 0
             /\ state = hist.prev /\ hist.draws = 0
        ELSE IF Gt(arg.lam, Zero) /\ Lt(arg.lam, D(10))
        THEN /\ hist.rets[1] = "mult"
             /\ pc \in {"mult", "done"}
             /\ \A i \in 2..Len(hist.rets) : hist.rets[i] \in {"more", "stop"}
        ELSE /\ Ge(arg.lam, D(10))
             /\ hist.rets[1] = "ptrs"
             /\ pc \in {"ptrs", "done"}
             /\ \A i \in 2..Len(hist.rets) :
                    hist.rets[i] \in {"fast", "skip", "slow", "reject"}

\* rk_poisson has returned for lam == 0
Witness_C7 == pc = "done" /\ Eq(arg.lam, Zero) /\ LastPass = "zero"

(***************************************************************************)
(* Properties of rk_vonmises.                                              *)
(***************************************************************************)
\* C5: every value rk_vonmises returns lies in [-pi, pi): it is never pi and
\* never outside, the case of a negative angle+mu whose wrapped magnitude is
\* -pi included.
Claim_C5 == pc = "done" => (Ge(ret, Neg(Pi)) /\ Lt(ret, Pi))

(***************************************************************************)
(* Properties of rk_binomial.                                              *)
(***************************************************************************)
\* C3: for every n >= 0, every p in [0, 1] and every draw, rk_binomial
\* returns a value in 0..n, by inversion and by BTPE, reflected or not.
Claim_C3 == pc = "done" => ret \in 0..arg.n

SameFields(a, b, fields) == \A f \in fields : a[f] = b[f]

\* C11: whenever has_binomial is set, the fields kept are those the function
\* chosen for (nsave, psave) computes from them; while a function runs, the
\* fields it reads are those it would compute from its own arguments; and a
\* function that takes the fields as kept reads fields it wrote itself.
Claim_C11 ==
    /\ state.has_binomial = 1 =>
           IF BinomialPath(state.nsave, state.psave) = "inversion"
           THEN SameFields(state, InversionSetup(state, state.nsave, state.psave),
                           InversionFields)
           ELSE SameFields(state, BtpeSetup(state, state.nsave, state.psave), BtpeFields)
    /\ pc = "inversion" =>
           SameFields(state, InversionSetup(state, arg.n, BinomialP), InversionFields)
    /\ pc \in {"Step10", "Step20", "Step30", "Step40", "Step50", "Step52", "Step60"} =>
           SameFields(state, BtpeSetup(state, arg.n, BinomialP), BtpeFields)
    /\ (pc \notin {"idle", "call"} /\ out.hits[Len(out.hits)]) =>
           out.wrote = out.paths[Len(out.paths)]

\* the third call takes the fields as the second left them, after a first
\* call of the other function had written r, c and m
Witness_C11 ==
    /\ pc = "done"
    /\ out.paths = <<"btpe", "inversion", "inversion">>
    /\ out.hits = <<FALSE, FALSE, TRUE>>

(***************************************************************************)
(* Properties of rk_binomial's choice and reflection.                      *)
(***************************************************************************)
\* the value the function rk_binomial called returns before Step60's and
\* rk_binomial's own reflection
ReducedSample == IF hist.rets[1] = "inversion" THEN loc.X ELSE loc.y

\* C12: rk_binomial hands on min(p, 1-p), calls rk_binomial_inversion when
\* that times n is at most 30 and rk_binomial_btpe otherwise, and returns the
\* reduced sample for p <= 0.5 and n minus it for p > 0.5; Step60 of
\* rk_binomial_btpe never reflects as well.
Claim_C12 ==
    pc # "call" =>
        /\ loc.p = MinOf(arg.p, Sub(One, arg.p))
        /\ hist.rets[1] = BinomialPath(arg.n, MinOf(arg.p, Sub(One, arg.p)))
        /\ pc = "inversion" <=> (pc # "done" /\ hist.rets[1] = "inversion")
        /\ pc = "Step60" => ~Gt(loc.p, Half)
        /\ pc = "done" =>
               ret = IF Gt(arg.p, Half) THEN arg.n - ReducedSample ELSE ReducedSample

\* rk_binomial_btpe reached with p > 0.5 has returned, and the value returned
\* is not the reduced sample
Witness_C12 ==
    /\ pc = "done"
    /\ Gt(arg.p, Half)
    /\ hist.rets[1] = "btpe"
    /\ ret = arg.n - loc.y
    /\ ret # loc.y

(***************************************************************************)
(* Properties of rk_seed.  The recurrence is stated on binary digits: a    *)
(* 64-bit value is a function from 0..63 to {0, 1}, digit 0 the least      *)
(* significant.                                                            *)
(***************************************************************************)
\* digit j of a word kept as limbs
WordBit(w, j) == (w[(j \div LimbBits) + 1] \div Pow2(j % LimbBits)) % 2
\* digit k of a natural below 2^31
NatBit(c, k) == (c \div Pow2(k)) % 2

\* s xor (s >> 30)
RefXorShift(b) == [j \in 0..63 |-> (b[j] + (IF j + 30 <= 63 THEN b[j + 30] ELSE 0)) % 2]

\* the number of ones in column j of the long multiplication of b by 1812433253
RefColumn(b, j) ==
    Cardinality({k \in 0..30 : k <= j /\ NatBit(1812433253, k) = 1 /\ b[j - k] = 1})

RECURSIVE RefDigits(_, _, _, _)
\* the digits lo..hi of 1812433253 * b + the carry into column lo, and the
\* carry out of column hi: the columns in order, halved to keep the
\* evaluation shallow
RefDigits(b, lo, hi, carry) ==
    IF lo = hi
    THEN Bind(RefColumn(b, lo) + carry, LAMBDA v : [d |-> <<v % 2>>, c |-> v \div 2])
    ELSE Bind((lo + hi) \div 2, LAMBDA mid :
         Bind(RefDigits(b, lo, mid, carry), LAMBDA l :
         Bind(RefDigits(b, mid + 1, hi, l.c), LAMBDA h :
             [d |-> l.d \o h.d, c |-> h.c])))

\* 1812433253 * (s xor (s >> 30)) + i modulo 2^64
RefStep(b0, i) ==
    Bind(RefXorShift(b0), LAMBDA b :
        Bind(RefDigits(b, 0, 63, i), LAMBDA r : [j \in 0..63 |-> r.d[j + 1]]))

\* C13: rk_seed(s, state) leaves in register word i-1 the low 32 bits of s_i,
\* where s_0 = s and s_i = 1812433253 * (s_{i-1} xor (s_{i-1} >> 30)) + i
\* modulo 2^64 with all 64 bits carried from round to round, and clears
\* has_gauss and has_binomial, whatever the state held before.
Claim_C13 ==
    (pc = "seeded" /\ hist.seedings > 0) =>
        \E s0 \in {[j \in 0..63 |-> WordBit(arg, j)]} :
        \E s1 \in {RefStep(s0, 1)} : \E s2 \in {RefStep(s1, 2)} :
        \E s3 \in {RefStep(s2, 3)} : \E s4 \in {RefStep(s3, 4)} :
            /\ \A j \in 0..31 :
                   /\ WordBit(state.xor128[1], j) = s1[j]
                   /\ WordBit(state.xor128[2], j) = s2[j]
                   /\ WordBit(state.xor128[3], j) = s3[j]
                   /\ WordBit(state.xor128[4], j) = s4[j]
            /\ state.has_gauss = 0
            /\ state.has_binomial = 0

\* rk_seed has run with a seed of 64 ones on storage whose flags were set
Witness_C13 ==
    /\ pc = "seeded"
    /\ hist.seedings = 1
    /\ arg = <<LimbBase - 1, LimbBase - 1, LimbBase - 1, LimbBase - 1>>
    /\ hist.prev.has_gauss # 0
    /\ hist.prev.has_binomial # 0

(***************************************************************************)
(* Properties of rk_random, stated on binary digits.                       *)
(***************************************************************************)
\* digit j of x << k and of x >> k for a 32-bit word x
BitShl(w, j, k) == IF j >= k THEN WordBit(w, j - k) ELSE 0
BitShr(w, j, k) == IF j + k <= 31 THEN WordBit(w, j + k) ELSE 0

\* digit j of t = r0 xor (r0 << 11) cut to 32 bits
RefT(r0, j) == (WordBit(r0, j) + BitShl(r0, j, 11)) % 2

\* digit j of r3 xor (r3 >> 19) xor t xor (t >> 8)
RefNew(r0, r3, j) ==
    (WordBit(r3, j) + BitShr(r3, j, 19) + RefT(r0, j)
        + (IF j + 8 <= 31 THEN RefT(r0, j + 8) ELSE 0)) % 2

\* C14: rk_random leaves the register (r0, r1, r2, r3) as (r1, r2, r3, w) with
\* w = r3 xor (r3 >> 19) xor t xor (t >> 8) and t = r0 xor (r0 << 11) cut to
\* 32 bits, returns w, and leaves every other field as it was.
Claim_C14 ==
    pc = "random" =>
        /\ state.xor128[1] = hist.prev.xor128[2]
        /\ state.xor128[2] = hist.prev.xor128[3]
        /\ state.xor128[3] = hist.prev.xor128[4]
        /\ \A j \in 0..31 :
               WordBit(state.xor128[4], j) = RefNew(hist.prev.xor128[1], hist.prev.xor128[4], j)
        /\ \A k \in 1..2 : state.xor128[4][k] \in 0..(LimbBase - 1)
        /\ ret = state.xor128[4]
        /\ \A f \in DOMAIN state \ {"xor128"} : state[f] = hist.prev[f]

\* rk_random has run on a register whose first word has its top digit set,
\* which the shift to the left drops, with a deviate kept in gauss
Witness_C14 ==
    /\ pc = "random"
    /\ WordBit(hist.prev.xor128[1], 31) = 1
    /\ hist.prev.has_gauss # 0
    /\ state.has_gauss # 0

(***************************************************************************)
(* Properties of the register.                                             *)
(***************************************************************************)
\* C15: after rk_seed and any number of rk_random steps the four register
\* words are not all zero: rk_seed does not leave them all zero, rk_random
\* leaves them all zero only if they were, and then it returns 0, rk_double
\* returns 0 and a pass of the loop of rk_gauss rejects and leaves the
\* register as it was.
Claim_C15 ==
    /\ hist.seedings > 0 => state.xor128 # ZeroRegister
    /\ pc \in {"random", "unseeded"} =>
           /\ state.xor128 = ZeroRegister <=> hist.prev.xor128 = ZeroRegister
           /\ hist.prev.xor128 = ZeroRegister => ret = ZeroWord
    /\ state.xor128 = ZeroRegister =>
           /\ rk_double(state).val = <<0, 0>>
           /\ rk_double(state).st = state
           /\ \E g \in {GaussPass(state)} : g.again /\ g.st = state

\* rk_seed has left a register whose first word is zero, and rk_random has
\* stepped it
Witness_C15 ==
    /\ pc = "random"
    /\ hist.seedings = 1
    /\ arg = ZeroWordSeed
    /\ hist.draws = 1
    /\ hist.prev.xor128[1] = ZeroWord
    /\ state.xor128 # ZeroRegister

=============================================================================
